---- MODULE Spec2Model ----
(***************************************************************************)
(* A model of bin/parse_ssc.py (class ParseSSC): the pipeline that reads   *)
(* POS.SSC.bam and NEG.SSC.bam, merges the forward and reverse read of     *)
(* each strand into a strand consensus (SSC), merges the two strands into  *)
(* a duplex consensus (DSC) while classifying mismatches as variants or    *)
(* adducts, and writes one output bundle per filter threshold.             *)
(*                                                                         *)
(* Python values are encoded as follows.  A dict is a function; a dict     *)
(* with insertion order that the code iterates is a function plus a        *)
(* sequence of its keys.  A str that is indexed is a sequence of           *)
(* one-character strings.  None is NoneInt in integer fields, NoneStr in   *)
(* name fields and NoneSeq in sequence fields.  An exception that leaves   *)
(* ParseSSC.__init__ ends the run: exc names it, and pc and cursor stay    *)
(* where it was raised.                                                    *)
(***************************************************************************)
EXTENDS Integers, Sequences, FiniteSets, TLC

VARIABLES
    pool,            \* the records the two input BAMs may hold (fixed per run)
    pc,              \* position in ParseSSC.__init__
    exc,             \* the exception that ended the run, or "none"
    refseq,          \* self.refseq: contig -> refpos -> base
    read_info,       \* self.read_info: family -> strand -> orient -> dict
    read_keys,       \* insertion order of self.read_info
    bam_keys,        \* per BAM, its families in order of first record
    ssc_info,        \* self.ssc_info: family -> strand -> StrandConsensus
    ssc_keys,        \* insertion order of self.ssc_info
    dsc_info,        \* self.dsc_info: family -> DuplexConsensus
    dsc_keys,        \* insertion order of self.dsc_info
    base_positions,  \* self.base_positions: series -> readpos -> count
    cursor,          \* index of the next item of the loop pc is in
    todo,            \* thresholds of the __init__ loop not yet visited
    bundles,         \* output folders written so far, in order
    filter_on,       \* sys.argv[2]
    filter_max       \* int(sys.argv[3])

vars == <<pool, pc, exc, refseq, read_info, read_keys, bam_keys,
          ssc_info, ssc_keys, dsc_info, dsc_keys, base_positions, cursor,
          todo, bundles, filter_on, filter_max>>

(***************************************************************************)
(* Bounds of the model.                                                    *)
(***************************************************************************)
\* the last reference position at which a record of the input may start
LastStart == 102

(***************************************************************************)
(* Python's None.                                                          *)
(***************************************************************************)
NoneInt == -1
NoneStr == "None"
NoneSeq == <<"None">>

EmptyDict == [k \in {} |-> 0]

\* d[k] = v on a dict
DictSet(d, k, v) == [x \in (DOMAIN d) \cup {k} |-> IF x = k THEN v ELSE d[x]]

\* d.get(k, default)
DictGet(d, k, default) == IF k \in DOMAIN d THEN d[k] ELSE default

Max2(a, b) == IF a >= b THEN a ELSE b
Min2(a, b) == IF a <= b THEN a ELSE b

\* Python's s[lo:hi] on a sequence (0-based, negative indexes count from the
\* end, out-of-range indexes are clamped)
PySlice(s, lo, hi) ==
    LET n  == Len(s)
        l  == IF lo < 0 THEN Max2(lo + n, 0) ELSE Min2(lo, n)
        h  == IF hi < 0 THEN Max2(hi + n, 0) ELSE Min2(hi, n)
    IN  IF h <= l THEN <<>> ELSE SubSeq(s, l + 1, h)

\* str.upper() on one character
Upper(b) ==
    CASE b = "a" -> "A"
      [] b = "c" -> "C"
      [] b = "g" -> "G"
      [] b = "t" -> "T"
      [] b = "n" -> "N"
      [] OTHER   -> b

allowed_nucs == {"A", "T", "C", "G"}

\* complement(base); a base outside A/T/C/G raises KeyError in the code and
\* is never passed by merge_strands
complement(base) ==
    CASE base = "A" -> "T"
      [] base = "T" -> "A"
      [] base = "C" -> "G"
      [] base = "G" -> "C"

\* iupac(base1, base2)
iupac(base1, base2) ==
    IF base1 \notin allowed_nucs \/ base2 \notin allowed_nucs THEN "N"
    ELSE IF base1 = base2 THEN base1
    ELSE LET s == {base1, base2}
         IN  CASE s = {"A", "T"} -> "W"
               [] s = {"A", "C"} -> "M"
               [] s = {"A", "G"} -> "R"
               [] s = {"T", "C"} -> "Y"
               [] s = {"T", "G"} -> "K"
               [] s = {"C", "G"} -> "S"

(***************************************************************************)
(* The input: aligned records as pysam presents them.  A record carries    *)
(* query_name, is_reverse, reference_name, reference_start, reference_end  *)
(* (one past the last aligned reference position), query_sequence, the     *)
(* value of get_reference_sequence() (rseq: the reference over             *)
(* [reference_start, reference_end), lowercase where the read mismatches)  *)
(* and get_aligned_pairs() (pairs <<qpos, rpos>>, NoneInt for an absent    *)
(* side).  All records are aligned to one reference genome.                *)
(***************************************************************************)
Contigs == {"chr1", "chr2"}

Genome ==
    [c \in Contigs |->
        IF c = "chr1"
        THEN (100 :> "A" @@ 101 :> "C" @@ 102 :> "G" @@ 103 :> "T" @@ 104 :> "A")
        ELSE (100 :> "T" @@ 101 :> "G" @@ 102 :> "N" @@ 103 :> "C" @@ 104 :> "A")]

Lower(b) ==
    CASE b = "A" -> "a"
      [] b = "C" -> "c"
      [] b = "G" -> "g"
      [] b = "T" -> "t"
      [] b = "N" -> "n"
      [] OTHER   -> b

\* An ungapped alignment of the query bases q at contig:start.
MkRead(name, rev, contig, start, q) ==
    [query_name      |-> name,
     is_reverse      |-> rev,
     reference_name  |-> contig,
     reference_start |-> start,
     reference_end   |-> start + Len(q),
     query_sequence  |-> q,
     rseq            |-> [i \in 1..Len(q) |->
                            IF Upper(q[i]) = Genome[contig][start + i - 1]
                            THEN Genome[contig][start + i - 1]
                            ELSE Lower(Genome[contig][start + i - 1])],
     aligned_pairs   |-> [i \in 1..Len(q) |-> <<i - 1, start + i - 1>>]]

\* An alignment of the query bases q at contig:start with the reference base
\* at offset del (0-based) deleted from the read.
MkReadDel(name, rev, contig, start, q, del) ==
    [query_name      |-> name,
     is_reverse      |-> rev,
     reference_name  |-> contig,
     reference_start |-> start,
     reference_end   |-> start + Len(q) + 1,
     query_sequence  |-> q,
     rseq            |-> [i \in 1..(Len(q) + 1) |->
                            IF i - 1 = del THEN Genome[contig][start + i - 1]
                            ELSE LET qb == q[IF i - 1 < del THEN i ELSE i - 1]
                                 IN  IF Upper(qb) = Genome[contig][start + i - 1]
                                     THEN Genome[contig][start + i - 1]
                                     ELSE Lower(Genome[contig][start + i - 1])],
     aligned_pairs   |-> [i \in 1..(Len(q) + 1) |->
                            IF i - 1 = del THEN <<NoneInt, start + i - 1>>
                            ELSE <<(IF i - 1 < del THEN i - 1 ELSE i - 2),
                                   start + i - 1>>]]

Strands == <<"pos", "neg">>
Orients == <<"fwd", "rev">>

(***************************************************************************)
(* parse_variants: the positions where the read differs from the           *)
(* reference, and the reference bases it caches.                           *)
(***************************************************************************)
RECURSIVE parse_variants_from(_, _, _, _)
parse_variants_from(read, i, variants, rs) ==
    IF i > Len(read.aligned_pairs) THEN [variants |-> variants, refseq |-> rs]
    ELSE LET qpos == read.aligned_pairs[i][1]
             rpos == read.aligned_pairs[i][2]
         IN  IF rpos = NoneInt \/ qpos = NoneInt
             THEN parse_variants_from(read, i + 1, variants, rs)
             ELSE LET qbase == Upper(read.query_sequence[qpos + 1])
                      rbase == Upper(read.rseq[(rpos - read.reference_start) + 1])
                      rs2   == [rs EXCEPT ![read.reference_name] =
                                    DictSet(@, rpos, rbase)]
                  IN  IF rbase \notin allowed_nucs \/ qbase \notin allowed_nucs
                      THEN parse_variants_from(read, i + 1, variants, rs2)
                      ELSE IF qbase = rbase
                      THEN parse_variants_from(read, i + 1, variants, rs2)
                      ELSE parse_variants_from(read, i + 1,
                                               DictSet(variants, rpos, qbase), rs2)

parse_variants(read, rs) == parse_variants_from(read, 1, EmptyDict, rs)

\* parse_read: (family_id, orient, read_details) and the updated cache
parse_read(read, rs) ==
    LET pv == parse_variants(read, rs)
    IN  [family_id    |-> read.query_name,
         orient       |-> IF read.is_reverse THEN "rev" ELSE "fwd",
         read_details |-> [ref_name |-> read.reference_name,
                           start    |-> read.reference_start,
                           end      |-> read.reference_end,
                           variants |-> pv.variants],
         refseq       |-> pv.refseq]

\* the value the read_info defaultdict creates for a new family
read_info_default ==
    [strand \in {"pos", "neg"} |-> [orient \in {"fwd", "rev"} |-> EmptyDict]]


(***************************************************************************)
(* merge_read_pair: the forward and reverse read of one strand of one      *)
(* family become a StrandConsensus, unless the pair is anomalous.          *)
(***************************************************************************)
\* the value the ssc_info defaultdict creates for a new family
ssc_info_default ==
    [strand \in {"pos", "neg"} |->
        [ref_name |-> NoneStr, start |-> NoneInt, end |-> NoneInt,
         cons |-> NoneSeq, variants |-> EmptyDict]]

\* the position of a variant relative to the read it was seen in
readpos_of(fwd_rev, strand_info, refpos) ==
    IF fwd_rev = "fwd"
    THEN (refpos - strand_info.start) + 1
    ELSE (strand_info.end - refpos) + 1

\* add_read_variants that keeps a variant already recorded at the position
add_read_variants_keeps_first(variants, fwd_rev, strand_info, ref_name, rs) ==
    [refpos \in (DOMAIN variants) \cup (DOMAIN strand_info.variants) |->
        IF refpos \in DOMAIN variants
        THEN variants[refpos]
        ELSE [readpos |-> readpos_of(fwd_rev, strand_info, refpos),
              var     |-> strand_info.variants[refpos],
              ref     |-> rs[ref_name][refpos]]]

\* one pass of the loop over strand_reads.items(): every variant of the read
\* is written into the strand's variants, replacing what is there
add_read_variants(variants, fwd_rev, strand_info, ref_name, rs) ==
    [refpos \in (DOMAIN variants) \cup (DOMAIN strand_info.variants) |->
        IF refpos \in DOMAIN strand_info.variants
        THEN [readpos |-> readpos_of(fwd_rev, strand_info, refpos),
              var     |-> strand_info.variants[refpos],
              ref     |-> rs[ref_name][refpos]]
        ELSE variants[refpos]]

\* set(range(start, end + 1))
covered_by(strand_info) == strand_info.start .. strand_info.end

\* the consensus base of one position
cons_base(pos, covered_bases, variants, ref_name, rs) ==
    IF pos \in covered_bases
    THEN IF pos \in DOMAIN variants
         THEN variants[pos].var
         ELSE DictGet(rs[ref_name], pos, "N")
    ELSE "N"

build_cons(start, end, covered_bases, variants, ref_name, rs) ==
    [i \in 1..Max2(0, end - start + 1) |->
        cons_base(start + i - 1, covered_bases, variants, ref_name, rs)]

\* the ssc_info, ssc_keys after self.ssc_info[family_id] was touched
touch(info, keys, family_id, default) ==
    IF family_id \in DOMAIN info
    THEN [info |-> info, keys |-> keys]
    ELSE [info |-> DictSet(info, family_id, default),
          keys |-> Append(keys, family_id)]

merge_read_pair(family_id, strand, strand_reads, ssc, keys, rs) ==
    IF "fwd" \notin DOMAIN strand_reads \/ "rev" \notin DOMAIN strand_reads
    THEN [exc |-> "none", ssc_info |-> ssc, ssc_keys |-> keys]
    ELSE IF "ref_name" \notin DOMAIN strand_reads["fwd"]
    THEN \* strand_reads["fwd"]["ref_name"] on the empty dict
         [exc |-> "KeyError", ssc_info |-> ssc, ssc_keys |-> keys]
    ELSE IF strand_reads["fwd"]["ref_name"]
              # DictGet(strand_reads["rev"], "ref_name", NoneStr)
    THEN [exc |-> "none", ssc_info |-> ssc, ssc_keys |-> keys]
    ELSE IF strand_reads["fwd"]["start"] >= strand_reads["rev"]["end"]
    THEN [exc |-> "none", ssc_info |-> ssc, ssc_keys |-> keys]
    ELSE LET ref_name == strand_reads["fwd"]["ref_name"]
             t        == touch(ssc, keys, family_id, ssc_info_default)
             start    == strand_reads["fwd"]["start"]
             end      == strand_reads["rev"]["end"]
             v0       == t.info[family_id][strand].variants
             v1       == add_read_variants(v0, "fwd", strand_reads["fwd"],
                                           ref_name, rs)
             v2       == add_read_variants(v1, "rev", strand_reads["rev"],
                                           ref_name, rs)
             covered  == covered_by(strand_reads["fwd"])
                            \cup covered_by(strand_reads["rev"])
             cons     == build_cons(start, end, covered, v2, ref_name, rs)
         IN  [exc      |-> "none",
              ssc_info |-> [t.info EXCEPT ![family_id][strand] =
                              [ref_name |-> ref_name, start |-> start,
                               end |-> end, cons |-> cons, variants |-> v2]],
              ssc_keys |-> t.keys]


(***************************************************************************)
(* merge_strands: the two StrandConsensuses of a family become its         *)
(* DuplexConsensus; every position sequenced on both strands is classified *)
(* as a match, a variant or an adduct.                                     *)
(***************************************************************************)
\* the value the dsc_info defaultdict creates for a new family
dsc_info_default ==
    [ref_name |-> NoneStr, start |-> NoneInt, end |-> NoneInt,
     cons |-> NoneSeq, nbases |-> 0, adducts |-> EmptyDict,
     variants |-> EmptyDict, total_variants_and_adducts |-> 0,
     total_variants |-> 0]

\* counter[key] += 1 on a defaultdict(int)
Incr(counter, key) == DictSet(counter, key, DictGet(counter, key, 0) + 1)

\* the slice that trims a strand's consensus to the duplex span
trim_cons(strand_dict, start_pos, end_pos) ==
    LET sl == PySlice(strand_dict.cons,
                      strand_dict.start - start_pos,
                      Len(strand_dict.cons) - (strand_dict.end - end_pos))
    IN  [i \in 1..Len(sl) |-> Upper(sl[i])]

\* the shortest distance to either end of the duplex span
readpos_in(refpos, start_pos, end_pos) ==
    Min2(refpos - start_pos, end_pos - refpos) + 1

\* self.dsc_info[family_id]["variants"][refpos] = dict(var=..., ref=...) and
\* the read-position counter of variants
record_variant(st, refpos, readpos, pos_base, refbase) ==
    [st EXCEPT !.d.variants = DictSet(@, refpos,
                                      [var |-> pos_base, ref |-> refbase]),
               !.bp.variants = Incr(@, readpos)]

\* the adduct record of a mismatch seen on the positive strand only
pos_adduct(pos_base, refbase) ==
    [strand |-> "pos", var |-> pos_base, ref |-> refbase]

\* neg_adduct with the base as read, not complemented
neg_adduct_var_as_read(neg_base, refbase) ==
    [strand |-> "neg", var |-> neg_base, ref |-> complement(refbase)]

\* neg_adduct with the reference base as cached, not complemented
neg_adduct_ref_as_cached(neg_base, refbase) ==
    [strand |-> "neg", var |-> complement(neg_base), ref |-> refbase]

\* the adduct record of a mismatch attributed to the negative strand
neg_adduct(neg_base, refbase) ==
    [strand |-> "neg", var |-> complement(neg_base),
     ref |-> complement(refbase)]

\* self.dsc_info[family_id]["adducts"][refpos] = dict(...) and the
\* read-position counter of adducts
record_adduct(st, refpos, readpos, adduct) ==
    [st EXCEPT !.d.adducts = DictSet(@, refpos, adduct),
               !.bp.adducts = Incr(@, readpos)]

\* both_mismatched that records no variant when the strands read different
\* bases
both_mismatched_no_variant_if_differ(st, refpos, readpos, pos_base, neg_base, refbase) ==
    LET s2 == IF pos_base = neg_base
              THEN record_variant(st, refpos, readpos, pos_base, refbase)
              ELSE record_adduct(st, refpos, readpos,
                                 neg_adduct(neg_base, refbase))
    IN  [s2 EXCEPT !.d.total_variants_and_adducts = @ + 1,
                   !.d.total_variants = @ + 1]

\* both_mismatched that records no adduct when the strands read different
\* bases
both_mismatched_no_adduct(st, refpos, readpos, pos_base, neg_base, refbase) ==
    [record_variant(st, refpos, readpos, pos_base, refbase)
        EXCEPT !.d.total_variants_and_adducts = @ + 1,
               !.d.total_variants = @ + 1]

\* both_mismatched that counts a variant only when the strands read the same
\* base
both_mismatched_counts_if_same(st, refpos, readpos, pos_base, neg_base, refbase) ==
    LET s2 == IF pos_base = neg_base
              THEN [record_variant(st, refpos, readpos, pos_base, refbase)
                       EXCEPT !.d.total_variants = @ + 1]
              ELSE record_adduct(
                       record_variant(st, refpos, readpos, pos_base, refbase),
                       refpos, readpos, neg_adduct(neg_base, refbase))
    IN  [s2 EXCEPT !.d.total_variants_and_adducts = @ + 1]

\* both_mismatched that counts the variant and the adduct of one position as
\* two
both_mismatched_counts_two(st, refpos, readpos, pos_base, neg_base, refbase) ==
    LET s2 == IF pos_base = neg_base
              THEN record_variant(st, refpos, readpos, pos_base, refbase)
              ELSE [record_adduct(
                       record_variant(st, refpos, readpos, pos_base, refbase),
                       refpos, readpos, neg_adduct(neg_base, refbase))
                       EXCEPT !.d.total_variants_and_adducts = @ + 1]
    IN  [s2 EXCEPT !.d.total_variants_and_adducts = @ + 1,
                   !.d.total_variants = @ + 1]

\* both_mismatched that takes the variant's base from the negative strand
both_mismatched_var_of_neg(st, refpos, readpos, pos_base, neg_base, refbase) ==
    LET s2 == IF pos_base = neg_base
              THEN record_variant(st, refpos, readpos, pos_base, refbase)
              ELSE record_adduct(
                       record_variant(st, refpos, readpos, neg_base, refbase),
                       refpos, readpos, neg_adduct(neg_base, refbase))
    IN  [s2 EXCEPT !.d.total_variants_and_adducts = @ + 1,
                   !.d.total_variants = @ + 1]

\* the branch `if pos_base != refbase and neg_base != refbase`
both_mismatched(st, refpos, readpos, pos_base, neg_base, refbase) ==
    LET s2 == IF pos_base = neg_base
              THEN record_variant(st, refpos, readpos, pos_base, refbase)
              ELSE record_adduct(
                       record_variant(st, refpos, readpos, pos_base, refbase),
                       refpos, readpos, neg_adduct(neg_base, refbase))
    IN  [s2 EXCEPT !.d.total_variants_and_adducts = @ + 1,
                   !.d.total_variants = @ + 1]

\* the branch `elif pos_base != refbase`
pos_mismatched(st, refpos, readpos, pos_base, refbase) ==
    [record_adduct(st, refpos, readpos, pos_adduct(pos_base, refbase))
        EXCEPT !.d.total_variants_and_adducts = @ + 1]

\* the branch `elif neg_base != refbase`
neg_mismatched(st, refpos, readpos, neg_base, refbase) ==
    [record_adduct(st, refpos, readpos, neg_adduct(neg_base, refbase))
        EXCEPT !.d.total_variants_and_adducts = @ + 1]

\* the body of the loop over zip(range(start_pos, end_pos + 1), pos, neg)
\* for one position, on st = [d: the family's record, bp: base_positions,
\* cons_list, exc]
classify(st, refpos, pos_base, neg_base, ref_name, start_pos, end_pos, rs) ==
    IF pos_base \notin allowed_nucs \/ neg_base \notin allowed_nucs
    THEN [st EXCEPT !.cons_list = Append(@, "N")]
    ELSE IF refpos \notin DOMAIN rs[ref_name]
    THEN \* self.refseq[ref_name][refpos] on a position never cached
         [st EXCEPT !.exc = "KeyError"]
    ELSE
    LET refbase == rs[ref_name][refpos]
        readpos == readpos_in(refpos, start_pos, end_pos)
    IN  IF ~(readpos > 0)
        THEN [st EXCEPT !.exc = "AssertionError"]
        ELSE
        LET s1 == [st EXCEPT !.d.nbases = @ + 1,
                             !.bp.nreads = Incr(@, readpos),
                             !.cons_list = Append(@, iupac(pos_base, neg_base))]
        IN  IF refbase \notin allowed_nucs THEN s1
            ELSE IF pos_base # refbase /\ neg_base # refbase
            THEN both_mismatched(s1, refpos, readpos, pos_base, neg_base, refbase)
            ELSE IF pos_base # refbase
            THEN pos_mismatched(s1, refpos, readpos, pos_base, refbase)
            ELSE IF neg_base # refbase
            THEN neg_mismatched(s1, refpos, readpos, neg_base, refbase)
            ELSE s1

\* the number of triples zip(range(start_pos, end_pos + 1), pos, neg) yields
zip_len(start_pos, end_pos, pos_cons, neg_cons) ==
    Min2(Max2(0, end_pos - start_pos + 1), Min2(Len(pos_cons), Len(neg_cons)))

RECURSIVE classify_from(_, _, _, _, _, _, _, _, _)
classify_from(st, i, n, pos_cons, neg_cons, ref_name, start_pos, end_pos, rs) ==
    IF i > n \/ st.exc # "none" THEN st
    ELSE classify_from(
            classify(st, start_pos + i - 1, pos_cons[i], neg_cons[i],
                     ref_name, start_pos, end_pos, rs),
            i + 1, n, pos_cons, neg_cons, ref_name, start_pos, end_pos, rs)

merge_strands(family_id, family_strands, dsc, keys, rs, bp) ==
    IF \E strand \in {"pos", "neg"} :
          family_strands[strand].start = NoneInt
          \/ family_strands[strand].end = NoneInt
    THEN \* max() or min() of an int and None
         [exc |-> "TypeError", dsc_info |-> dsc, dsc_keys |-> keys,
          base_positions |-> bp]
    ELSE
    LET start_pos == Max2(family_strands["pos"].start, family_strands["neg"].start)
        end_pos   == Min2(family_strands["pos"].end, family_strands["neg"].end)
        t         == touch(dsc, keys, family_id, dsc_info_default)
        pos_cons  == trim_cons(family_strands["pos"], start_pos, end_pos)
        neg_cons  == trim_cons(family_strands["neg"], start_pos, end_pos)
        ref_name  == family_strands["pos"].ref_name
        d0        == [t.info[family_id] EXCEPT !.start = start_pos,
                                               !.end = end_pos,
                                               !.ref_name = ref_name]
        fin       == classify_from(
                        [d |-> d0, bp |-> bp, cons_list |-> <<>>, exc |-> "none"],
                        1, zip_len(start_pos, end_pos, pos_cons, neg_cons),
                        pos_cons, neg_cons, ref_name, start_pos, end_pos, rs)
        d1        == IF fin.exc = "none"
                     THEN [fin.d EXCEPT !.cons = fin.cons_list]
                     ELSE fin.d
    IN  [exc            |-> fin.exc,
         dsc_info       |-> [t.info EXCEPT ![family_id] = d1],
         dsc_keys       |-> t.keys,
         base_positions |-> fin.bp]


(***************************************************************************)
(* format_summary and write_output.  A bundle is what write_output puts    *)
(* into one folder: the kept families, the summary counts and the          *)
(* read-position table.                                                    *)
(***************************************************************************)
RECURSIVE SumSeq(_)
SumSeq(s) == IF s = <<>> THEN 0 ELSE Head(s) + SumSeq(Tail(s))

\* the families of dsc_info.items() that are kept, in iteration order
kept_seq(dsc, keys, keep_families) ==
    SelectSeq(keys, LAMBDA f : f \in keep_families)

\* the number of entries of dict d that record the base change var <- ref
count_changes(d, var, ref) ==
    Cardinality({k \in DOMAIN d : d[k].var = var /\ d[k].ref = ref})

\* format_summary that tallies each adduct once
format_summary_adducts_once(dsc, keys, keep_families) ==
    LET ks == kept_seq(dsc, keys, keep_families)
        on(c) == SelectSeq(ks, LAMBDA f : dsc[f].ref_name = c)
        nvar(fs) == SumSeq([i \in 1..Len(fs) |->
                              Cardinality(DOMAIN dsc[fs[i]].variants)])
        nadd(fs) == SumSeq([i \in 1..Len(fs) |->
                              Cardinality(DOMAIN dsc[fs[i]].adducts)])
        nbas(fs) == SumSeq([i \in 1..Len(fs) |-> dsc[fs[i]].nbases])
        changes(field) ==
            [vr \in allowed_nucs \X allowed_nucs |->
                SumSeq([i \in 1..Len(ks) |->
                    count_changes(dsc[ks[i]][field], vr[1], vr[2])])]
    IN  [total_counts |-> [ssc |-> Len(ks), bases |-> nbas(ks),
                           variants |-> nvar(ks), adducts |-> nadd(ks)],
         chr_counts   |-> [c \in {dsc[ks[i]].ref_name : i \in 1..Len(ks)} |->
                             [families |-> Len(on(c)), bases |-> nbas(on(c)),
                              variants |-> nvar(on(c)), adducts |-> nadd(on(c))]],
         variant_base_changes |-> changes("variants"),
         adduct_base_changes  |-> changes("adducts")]

format_summary(dsc, keys, keep_families) ==
    LET ks == kept_seq(dsc, keys, keep_families)
        on(c) == SelectSeq(ks, LAMBDA f : dsc[f].ref_name = c)
        nvar(fs) == SumSeq([i \in 1..Len(fs) |->
                              Cardinality(DOMAIN dsc[fs[i]].variants)])
        \* len(dsc['adducts']) in the families loop, then 1 per adduct
        nadd(fs) == SumSeq([i \in 1..Len(fs) |->
                              Cardinality(DOMAIN dsc[fs[i]].adducts)
                              + Cardinality(DOMAIN dsc[fs[i]].adducts)])
        nbas(fs) == SumSeq([i \in 1..Len(fs) |-> dsc[fs[i]].nbases])
        changes(field) ==
            [vr \in allowed_nucs \X allowed_nucs |->
                SumSeq([i \in 1..Len(ks) |->
                    count_changes(dsc[ks[i]][field], vr[1], vr[2])])]
    IN  [total_counts |-> [ssc |-> Len(ks), bases |-> nbas(ks),
                           variants |-> nvar(ks), adducts |-> nadd(ks)],
         chr_counts   |-> [c \in {dsc[ks[i]].ref_name : i \in 1..Len(ks)} |->
                             [families |-> Len(on(c)), bases |-> nbas(on(c)),
                              variants |-> nvar(on(c)), adducts |-> nadd(on(c))]],
         variant_base_changes |-> changes("variants"),
         adduct_base_changes  |-> changes("adducts")]

\* keep_families that leaves out the families at the threshold itself
keep_families_of_below(dsc, keys, metric, max_vars) ==
    {keys[i] : i \in {j \in 1..Len(keys) :
                        max_vars = NoneInt \/ dsc[keys[j]][metric] < max_vars}}

\* keep_families of write_output
keep_families_of(dsc, keys, metric, max_vars) ==
    {keys[i] : i \in {j \in 1..Len(keys) :
                        max_vars = NoneInt \/ dsc[keys[j]][metric] <= max_vars}}

write_output(folder, max_vars, dsc, keys, metric, bp) ==
    LET keep == keep_families_of(dsc, keys, metric, max_vars)
    IN  [folder           |-> folder,
         max_vars         |-> max_vars,
         keep_families    |-> keep,
         summary          |-> format_summary(dsc, keys, keep),
         by_read_position |-> bp]

\* list(set([dsc_info[f][filter_on] for f in dsc_info]))
threshold_values(dsc, keys, metric) ==
    {dsc[keys[i]][metric] : i \in 1..Len(keys)}


(***************************************************************************)
(* The records the input BAMs are drawn from.                              *)
(***************************************************************************)
Starts == 100..LastStart

QueryBases == {"C", "G"}

\* one family, every one-base record on chr1 and one record on chr2
PoolDuplex ==
    {MkRead("F1", rev, "chr1", s, <<b>>) :
        rev \in BOOLEAN, s \in Starts, b \in QueryBases}
    \cup {MkRead("F1", rev, "chr2", 100, <<"T">>) : rev \in BOOLEAN}

(***************************************************************************)
(* ParseSSC.__init__ as a state machine.                                   *)
(***************************************************************************)
InitWith(p, fons, fmaxes) ==
    /\ pool = p
    /\ pc = "parse_pos"
    /\ exc = "none"
    /\ refseq = [c \in Contigs |-> EmptyDict]
    /\ read_info = EmptyDict
    /\ read_keys = <<>>
    /\ bam_keys = [strand \in {"pos", "neg"} |-> <<>>]
    /\ ssc_info = EmptyDict
    /\ ssc_keys = <<>>
    /\ dsc_info = EmptyDict
    /\ dsc_keys = <<>>
    /\ base_positions = [adducts |-> EmptyDict, variants |-> EmptyDict,
                         nreads |-> EmptyDict]
    /\ cursor = 0
    /\ todo = {}
    /\ bundles = <<>>
    /\ filter_on \in fons
    /\ filter_max \in fmaxes

Init == InitWith(PoolDuplex, {"total_variants_and_adducts"}, {0})

\* the strand of the BAM that parse_bam is reading
bam_strand == IF pc = "parse_pos" THEN "pos" ELSE "neg"

\* the families of a BAM in the order of their first record, after a record
\* of family_id
first_seen(keys, family_id) ==
    IF \E i \in 1..Len(keys) : keys[i] = family_id THEN keys
    ELSE Append(keys, family_id)

\* parse_bam that adds the variants of a record to those already stored
ParseRead_merges_variants ==
    /\ exc = "none"
    /\ pc \in {"parse_pos", "parse_neg"}
    /\ \E read \in pool :
          LET r == parse_read(read, refseq)
              t == touch(read_info, read_keys, r.family_id, read_info_default)
              old == DictGet(t.info[r.family_id][bam_strand][r.orient],
                             "variants", EmptyDict)
              new == r.read_details.variants
              all == [p \in (DOMAIN old) \cup (DOMAIN new) |->
                        IF p \in DOMAIN new THEN new[p] ELSE old[p]]
          IN  /\ read_info' = [t.info EXCEPT
                                 ![r.family_id][bam_strand][r.orient] =
                                     [r.read_details EXCEPT !.variants = all]]
              /\ read_keys' = t.keys
              /\ bam_keys' = [bam_keys EXCEPT ![bam_strand] =
                                 first_seen(@, r.family_id)]
              /\ refseq' = r.refseq
    /\ UNCHANGED <<pool, pc, exc, ssc_info, ssc_keys, dsc_info, dsc_keys,
                   base_positions, cursor, todo, bundles, filter_on,
                   filter_max>>

\* parse_bam, one iteration of `for read in bam`
ParseRead ==
    /\ exc = "none"
    /\ pc \in {"parse_pos", "parse_neg"}
    /\ \E read \in pool :
          LET r == parse_read(read, refseq)
              t == touch(read_info, read_keys, r.family_id, read_info_default)
          IN  /\ read_info' = [t.info EXCEPT
                                 ![r.family_id][bam_strand][r.orient] =
                                     r.read_details]
              /\ read_keys' = t.keys
              /\ bam_keys' = [bam_keys EXCEPT ![bam_strand] =
                                 first_seen(@, r.family_id)]
              /\ refseq' = r.refseq
    /\ UNCHANGED <<pool, pc, exc, ssc_info, ssc_keys, dsc_info, dsc_keys,
                   base_positions, cursor, todo, bundles, filter_on,
                   filter_max>>

\* the position after the loop of merge_fwd_rev_per_strand
after_merge_fwd_rev(keys) ==
    IF keys = <<>> THEN "write_all" ELSE "merge_pos_neg"

\* parse_bam, the end of `for read in bam`
EndBam ==
    /\ exc = "none"
    /\ pc \in {"parse_pos", "parse_neg"}
    /\ pc' = IF pc = "parse_pos" THEN "parse_neg"
             ELSE IF read_keys = <<>> THEN after_merge_fwd_rev(ssc_keys)
             ELSE "merge_fwd_rev"
    /\ cursor' = 0
    /\ UNCHANGED <<pool, exc, refseq, read_info, read_keys, bam_keys, ssc_info,
                   ssc_keys,
                   dsc_info, dsc_keys, base_positions, todo, bundles,
                   filter_on, filter_max>>

\* merge_fwd_rev_per_strand, one call of merge_read_pair
MergeReadPair ==
    /\ exc = "none"
    /\ pc = "merge_fwd_rev"
    /\ LET family_id == read_keys[(cursor \div 2) + 1]
           strand    == Strands[(cursor % 2) + 1]
           r == merge_read_pair(family_id, strand,
                                read_info[family_id][strand],
                                ssc_info, ssc_keys, refseq)
       IN  /\ ssc_info' = r.ssc_info
           /\ ssc_keys' = r.ssc_keys
           /\ exc' = r.exc
           /\ pc' = IF r.exc # "none" THEN pc
                    ELSE IF cursor + 1 = 2 * Len(read_keys)
                    THEN after_merge_fwd_rev(r.ssc_keys)
                    ELSE "merge_fwd_rev"
           /\ cursor' = IF r.exc # "none" THEN cursor
                        ELSE IF cursor + 1 < 2 * Len(read_keys)
                        THEN cursor + 1 ELSE 0
    /\ UNCHANGED <<pool, refseq, read_info, read_keys, bam_keys, dsc_info,
                   dsc_keys,
                   base_positions, todo, bundles, filter_on, filter_max>>

\* merge_pos_neg_strands, one call of merge_strands
MergeStrands ==
    /\ exc = "none"
    /\ pc = "merge_pos_neg"
    /\ LET family_id == ssc_keys[cursor + 1]
           r == merge_strands(family_id, ssc_info[family_id],
                              dsc_info, dsc_keys, refseq, base_positions)
       IN  /\ dsc_info' = r.dsc_info
           /\ dsc_keys' = r.dsc_keys
           /\ base_positions' = r.base_positions
           /\ exc' = r.exc
           /\ pc' = IF r.exc # "none" THEN pc
                    ELSE IF cursor + 1 = Len(ssc_keys) THEN "write_all"
                    ELSE "merge_pos_neg"
           /\ cursor' = IF r.exc # "none" THEN cursor
                        ELSE IF cursor + 1 < Len(ssc_keys)
                        THEN cursor + 1 ELSE 0
    /\ UNCHANGED <<pool, refseq, read_info, read_keys, bam_keys, ssc_info,
                   ssc_keys,
                   todo, bundles, filter_on, filter_max>>

\* self.write_output(folder="all", max_vars=None), and the set of thresholds
WriteAll ==
    /\ exc = "none"
    /\ pc = "write_all"
    /\ bundles' = Append(bundles,
                         write_output("all", NoneInt, dsc_info, dsc_keys,
                                      filter_on, base_positions))
    /\ todo' = threshold_values(dsc_info, dsc_keys, filter_on)
    /\ pc' = IF todo' = {} THEN "done" ELSE "thresholds"
    /\ UNCHANGED <<pool, exc, refseq, read_info, read_keys, bam_keys, ssc_info,
                   ssc_keys,
                   dsc_info, dsc_keys, base_positions, cursor, filter_on,
                   filter_max>>

\* the iteration over the thresholds that filters the DSC map in place
VisitThreshold_filters_in_place ==
    /\ exc = "none"
    /\ pc = "thresholds"
    /\ \E max_vars \in todo :
          LET keep == keep_families_of(dsc_info, dsc_keys, filter_on, max_vars)
          IN  /\ todo' = todo \ {max_vars}
              /\ bundles' = IF max_vars > filter_max THEN bundles
                            ELSE Append(bundles,
                                    write_output("max_variants", max_vars,
                                                 dsc_info, dsc_keys, filter_on,
                                                 base_positions))
              /\ dsc_info' = IF max_vars > filter_max THEN dsc_info
                             ELSE [f \in keep |-> dsc_info[f]]
              /\ dsc_keys' = IF max_vars > filter_max THEN dsc_keys
                             ELSE kept_seq(dsc_info, dsc_keys, keep)
              /\ pc' = IF todo' = {} THEN "done" ELSE "thresholds"
    /\ UNCHANGED <<pool, exc, refseq, read_info, read_keys, bam_keys, ssc_info,
                   ssc_keys,
                   base_positions, cursor, filter_on, filter_max>>

\* the iteration over the thresholds without the test against filter_max
VisitThreshold_without_filter_max ==
    /\ exc = "none"
    /\ pc = "thresholds"
    /\ \E max_vars \in todo :
          /\ todo' = todo \ {max_vars}
          /\ bundles' = Append(bundles,
                               write_output("max_variants", max_vars, dsc_info,
                                            dsc_keys, filter_on,
                                            base_positions))
          /\ pc' = IF todo' = {} THEN "done" ELSE "thresholds"
    /\ UNCHANGED <<pool, exc, refseq, read_info, read_keys, bam_keys, ssc_info,
                   ssc_keys,
                   dsc_info, dsc_keys, base_positions, cursor, filter_on,
                   filter_max>>

\* one iteration of `for max_vars in list(set([...]))`; the order in which a
\* set is iterated is not specified
VisitThreshold ==
    /\ exc = "none"
    /\ pc = "thresholds"
    /\ \E max_vars \in todo :
          /\ todo' = todo \ {max_vars}
          /\ bundles' = IF max_vars > filter_max THEN bundles
                        ELSE Append(bundles,
                                write_output("max_variants", max_vars, dsc_info,
                                             dsc_keys, filter_on,
                                             base_positions))
          /\ pc' = IF todo' = {} THEN "done" ELSE "thresholds"
    /\ UNCHANGED <<pool, exc, refseq, read_info, read_keys, bam_keys, ssc_info,
                   ssc_keys,
                   dsc_info, dsc_keys, base_positions, cursor, filter_on,
                   filter_max>>

Next ==
    \/ ParseRead
    \/ EndBam
    \/ MergeReadPair
    \/ MergeStrands
    \/ WriteAll
    \/ VisitThreshold

Spec == Init /\ [][Next]_vars

(***************************************************************************)
(* A run over two families.  F1 is aligned to chr1:100-103 (reference      *)
(* ACGT) and reads ACGT or CCGT; F2 is a one-base family at chr2:100       *)
(* (reference T) that reads T or G.  The filter metric is either counter   *)
(* and filter_max is 0 or 1.                                               *)
(***************************************************************************)
PoolFamilies ==
    {MkRead("F1", rev, "chr1", 100, q) :
        rev \in BOOLEAN, q \in {<<"A", "C", "G", "T">>, <<"C", "C", "G", "T">>}}
    \cup {MkRead("F2", rev, "chr2", 100, <<b>>) :
            rev \in BOOLEAN, b \in {"T", "G"}}

InitFamilies ==
    InitWith(PoolFamilies, {"total_variants", "total_variants_and_adducts"},
             {0, 1})

SpecFamilies == InitFamilies /\ [][Next]_vars


(***************************************************************************)
(* What the properties below speak of.                                     *)
(***************************************************************************)
\* merge_pos_neg_strands has returned: dsc_info is the final DSC map
MergeDone == exc = "none" /\ pc \in {"write_all", "thresholds", "done"}

\* merge_strands has returned for family f
Merged(f) == f \in DOMAIN dsc_info /\ dsc_info[f].cons # NoneSeq

\* the trimmed consensus of a strand that merge_strands iterated for family f
StrandCons(f, strand) ==
    trim_cons(ssc_info[f][strand], dsc_info[f].start, dsc_info[f].end)

\* the reference positions the loop of merge_strands visited for family f
Visited(f) ==
    {dsc_info[f].start + i - 1 :
        i \in 1..zip_len(dsc_info[f].start, dsc_info[f].end,
                         StrandCons(f, "pos"), StrandCons(f, "neg"))}

\* pos_base and neg_base of the loop of merge_strands at position p
PosBase(f, p) == StrandCons(f, "pos")[p - dsc_info[f].start + 1]
NegBase(f, p) == StrandCons(f, "neg")[p - dsc_info[f].start + 1]

\* the ReferenceCache of the family's contig
RefCache(f) == refseq[dsc_info[f].ref_name]

\* P, N_ and R are all in {A,T,C,G} at position p of family f
AllNucs(f, p) ==
    /\ p \in Visited(f)
    /\ PosBase(f, p) \in allowed_nucs
    /\ NegBase(f, p) \in allowed_nucs
    /\ p \in DOMAIN RefCache(f)
    /\ RefCache(f)[p] \in allowed_nucs

\* both strands mismatch the reference at p
BothMismatch(f, p) ==
    PosBase(f, p) # RefCache(f)[p] /\ NegBase(f, p) # RefCache(f)[p]

Variants(f) == dsc_info[f].variants
Adducts(f) == dsc_info[f].adducts

(***************************************************************************)
(* C1: in merge_strands, at every position p where the positive-strand     *)
(* base P, the negative-strand base N_ (the bases the loop pairs with p)    *)
(* and the cached reference base R are all in {A,T,C,G}, p is recorded in  *)
(* the family's variants, as {var=P, ref=R}, if and only if P # R and      *)
(* N_ # R, whether or not P = N_; no variant is recorded anywhere else.    *)
(***************************************************************************)
C1_VariantIffBothStrandsMismatch ==
    \A f \in DOMAIN dsc_info :
        Merged(f) =>
            /\ \A p \in Visited(f) :
                  AllNucs(f, p) =>
                      /\ (p \in DOMAIN Variants(f)) <=> BothMismatch(f, p)
                      /\ p \in DOMAIN Variants(f) =>
                            Variants(f)[p] = [var |-> PosBase(f, p),
                                              ref |-> RefCache(f)[p]]
            /\ \A p \in DOMAIN Variants(f) : AllNucs(f, p)

\* a merged family with a variant where the two strands read different
\* bases, and a position read on both strands that is no variant
C1_Witness ==
    /\ MergeDone
    /\ \E f \in DOMAIN dsc_info :
          /\ \E p \in DOMAIN Variants(f) : PosBase(f, p) # NegBase(f, p)
          /\ \E q \in Visited(f) :
                AllNucs(f, q) /\ q \notin DOMAIN Variants(f)

(***************************************************************************)
(* C2: in merge_strands, at every position p where P, N_ and R are all in  *)
(* {A,T,C,G}: an adduct {strand=pos, var=P, ref=R} is recorded exactly     *)
(* when P # R and N_ = R; an adduct {strand=neg, var=complement(N_),       *)
(* ref=complement(R)} is recorded exactly when N_ # R and (P = R or        *)
(* P # N_); no adduct is recorded when P = N_.                             *)
(***************************************************************************)
C2_AdductRule ==
    \A f \in DOMAIN dsc_info :
        Merged(f) =>
            /\ \A p \in Visited(f) :
                  AllNucs(f, p) =>
                      LET P == PosBase(f, p)
                          N_ == NegBase(f, p)
                          R == RefCache(f)[p]
                          has(strand) == /\ p \in DOMAIN Adducts(f)
                                         /\ Adducts(f)[p].strand = strand
                      IN  /\ has("pos") <=> (P # R /\ N_ = R)
                          /\ has("pos") =>
                                Adducts(f)[p] =
                                    [strand |-> "pos", var |-> P, ref |-> R]
                          /\ has("neg") <=> (N_ # R /\ (P = R \/ P # N_))
                          /\ has("neg") =>
                                Adducts(f)[p] =
                                    [strand |-> "neg",
                                     var |-> IF N_ = "A" THEN "T"
                                             ELSE IF N_ = "T" THEN "A"
                                             ELSE IF N_ = "C" THEN "G" ELSE "C",
                                     ref |-> IF R = "A" THEN "T"
                                             ELSE IF R = "T" THEN "A"
                                             ELSE IF R = "C" THEN "G" ELSE "C"]
                          /\ P = N_ => p \notin DOMAIN Adducts(f)
            /\ \A p \in DOMAIN Adducts(f) : AllNucs(f, p)

\* a merged family with an adduct on each strand
C2_Witness ==
    /\ MergeDone
    /\ \E f \in DOMAIN dsc_info :
          /\ \E p \in DOMAIN Adducts(f) : Adducts(f)[p].strand = "pos"
          /\ \E p \in DOMAIN Adducts(f) : Adducts(f)[p].strand = "neg"

(***************************************************************************)
(* C3, as claimed: for every family of the final DSC map the positions of  *)
(* its variants and the positions of its adducts are disjoint.             *)
(***************************************************************************)
C3_VariantsAdductsDisjoint ==
    MergeDone =>
        \A f \in DOMAIN dsc_info :
            (DOMAIN Variants(f)) \cap (DOMAIN Adducts(f)) = {}

(***************************************************************************)
(* C3, amended: a position is recorded as both a variant and an adduct of  *)
(* a family exactly when both strands mismatch the reference there with    *)
(* different bases; the adduct is then the one attributed to the negative  *)
(* strand.  At every other position at most one of the two is recorded.    *)
(***************************************************************************)
C3_BothExactlyWhenStrandsDiffer ==
    MergeDone =>
        \A f \in DOMAIN dsc_info :
            /\ \A p \in Visited(f) :
                  (p \in (DOMAIN Variants(f)) \cap (DOMAIN Adducts(f)))
                     <=> /\ AllNucs(f, p)
                         /\ BothMismatch(f, p)
                         /\ PosBase(f, p) # NegBase(f, p)
            /\ \A p \in (DOMAIN Variants(f)) \cap (DOMAIN Adducts(f)) :
                  p \in Visited(f) /\ Adducts(f)[p].strand = "neg"

\* a final DSC map with a position that is both a variant and an adduct, and
\* a variant position that is no adduct
C3_Witness ==
    /\ MergeDone
    /\ \E f \in DOMAIN dsc_info :
          /\ (DOMAIN Variants(f)) \cap (DOMAIN Adducts(f)) # {}
          /\ (DOMAIN Variants(f)) \ (DOMAIN Adducts(f)) # {}

(***************************************************************************)
(* C4: for every family of the final DSC map, total_variants equals the    *)
(* number of entries of the family's variants map.                         *)
(***************************************************************************)
C4_TotalVariantsIsSize ==
    MergeDone =>
        \A f \in DOMAIN dsc_info :
            dsc_info[f].total_variants = Cardinality(DOMAIN Variants(f))

\* a final DSC map with a family of two variants, one read alike on both
\* strands and one read differently
C4_Witness ==
    /\ MergeDone
    /\ \E f \in DOMAIN dsc_info :
          /\ dsc_info[f].total_variants = 2
          /\ \E p \in DOMAIN Variants(f) : PosBase(f, p) = NegBase(f, p)
          /\ \E p \in DOMAIN Variants(f) : PosBase(f, p) # NegBase(f, p)

(***************************************************************************)
(* C5: for every family of the final DSC map, total_variants <=            *)
(* total_variants_and_adducts <= |variants| + |adducts|, and               *)
(* total_variants_and_adducts = |variants| + the number of adduct          *)
(* positions that are not variant positions.                               *)
(***************************************************************************)
C5_TotalVariantsAndAdducts ==
    MergeDone =>
        \A f \in DOMAIN dsc_info :
            LET tv  == dsc_info[f].total_variants
                tva == dsc_info[f].total_variants_and_adducts
                nv  == Cardinality(DOMAIN Variants(f))
                na  == Cardinality(DOMAIN Adducts(f))
            IN  /\ tv <= tva
                /\ tva <= nv + na
                /\ tva = nv + Cardinality((DOMAIN Adducts(f))
                                            \ (DOMAIN Variants(f)))

\* a final DSC map with a position that is both variant and adduct and an
\* adduct position that is no variant: the composite counter is 2, not 3
C5_Witness ==
    /\ MergeDone
    /\ \E f \in DOMAIN dsc_info :
          /\ (DOMAIN Variants(f)) \cap (DOMAIN Adducts(f)) # {}
          /\ (DOMAIN Adducts(f)) \ (DOMAIN Variants(f)) # {}
          /\ dsc_info[f].total_variants_and_adducts = 2

(***************************************************************************)
(* C6, as claimed: for every family of the final DSC map and every         *)
(* position p of its variants or adducts, negative-strand adducts          *)
(* included, the recorded ref equals the ReferenceCache base of the        *)
(* family's contig at p.                                                   *)
(***************************************************************************)
C6_RefIsCachedBase ==
    MergeDone =>
        \A f \in DOMAIN dsc_info :
            /\ \A p \in DOMAIN Variants(f) :
                  p \in DOMAIN RefCache(f)
                  /\ Variants(f)[p].ref = RefCache(f)[p]
            /\ \A p \in DOMAIN Adducts(f) :
                  p \in DOMAIN RefCache(f)
                  /\ Adducts(f)[p].ref = RefCache(f)[p]

(***************************************************************************)
(* C6, amended: the recorded ref of every variant and of every adduct      *)
(* attributed to the positive strand equals the ReferenceCache base of the *)
(* family's contig at p; the recorded ref of every adduct attributed to    *)
(* the negative strand is the complement of that base.                     *)
(***************************************************************************)
C6_RefIsCachedBaseOrComplement ==
    MergeDone =>
        \A f \in DOMAIN dsc_info :
            /\ \A p \in DOMAIN Variants(f) :
                  p \in DOMAIN RefCache(f)
                  /\ Variants(f)[p].ref = RefCache(f)[p]
            /\ \A p \in DOMAIN Adducts(f) :
                  /\ p \in DOMAIN RefCache(f)
                  /\ Adducts(f)[p].strand = "pos" =>
                        Adducts(f)[p].ref = RefCache(f)[p]
                  /\ Adducts(f)[p].strand = "neg" =>
                        <<Adducts(f)[p].ref, RefCache(f)[p]>> \in
                            {<<"A", "T">>, <<"T", "A">>,
                             <<"C", "G">>, <<"G", "C">>}

\* a final DSC map with a variant, a positive-strand adduct and a
\* negative-strand adduct
C6_Witness ==
    /\ MergeDone
    /\ \E f \in DOMAIN dsc_info :
          /\ DOMAIN Variants(f) # {}
          /\ \E p \in DOMAIN Adducts(f) : Adducts(f)[p].strand = "pos"
          /\ \E p \in DOMAIN Adducts(f) : Adducts(f)[p].strand = "neg"


(***************************************************************************)
(* C7, as claimed: for every family of the final DSC map, whatever the     *)
(* relative starts and ends of its two strand consensuses, the length of   *)
(* cons is end - start + 1 for the start and end stored in the record.     *)
(***************************************************************************)
C7_ConsLengthIsSpan ==
    MergeDone =>
        \A f \in DOMAIN dsc_info :
            Len(dsc_info[f].cons) = dsc_info[f].end - dsc_info[f].start + 1

(***************************************************************************)
(* C8, as claimed: every family of the final DSC map has start <= end; a   *)
(* family whose strands do not overlap is not in the map with start > end. *)
(***************************************************************************)
C8_StartNotAfterEnd ==
    MergeDone =>
        \A f \in DOMAIN dsc_info : dsc_info[f].start <= dsc_info[f].end

\* the family and strand that merge_fwd_rev_per_strand is at
CurrentPair ==
    [family |-> read_keys[(cursor \div 2) + 1],
     strand |-> Strands[(cursor % 2) + 1]]

\* the read pair of one strand of a family is anomalous: a read is missing,
\* the reads are on different contigs, or they do not point inwards
Anomalous(strand_reads) ==
    \/ DOMAIN strand_reads["fwd"] = {}
    \/ DOMAIN strand_reads["rev"] = {}
    \/ /\ DOMAIN strand_reads["fwd"] # {}
       /\ DOMAIN strand_reads["rev"] # {}
       /\ \/ strand_reads["fwd"].ref_name # strand_reads["rev"].ref_name
          \/ strand_reads["fwd"].start >= strand_reads["rev"].end

\* merge_fwd_rev_per_strand has returned
MergeFwdRevDone ==
    pc \in {"merge_pos_neg", "write_all", "thresholds", "done"}

\* no StrandConsensus was written for strand s of family f
NoConsensus(f, s) ==
    f \notin DOMAIN ssc_info \/ ssc_info[f][s].cons = NoneSeq

(***************************************************************************)
(* C9, as claimed: for an anomalous read pair (forward read missing,       *)
(* reverse read missing, different contigs, or fwd.start >= rev.end)       *)
(* merge_read_pair returns without raising and writes no StrandConsensus   *)
(* for that family and strand, and merge_fwd_rev_per_strand goes on to the *)
(* remaining families and strands.                                         *)
(***************************************************************************)
C9_AnomalousPairIsDropped ==
    /\ (pc = "merge_fwd_rev" /\ exc # "none") =>
          ~Anomalous(read_info[CurrentPair.family][CurrentPair.strand])
    /\ MergeFwdRevDone =>
          \A f \in DOMAIN read_info : \A s \in {"pos", "neg"} :
              Anomalous(read_info[f][s]) => NoConsensus(f, s)

\* exactly one strand of family f has a StrandConsensus
OneStrandDropped(f) ==
    /\ f \in DOMAIN ssc_info
    /\ \E s \in {"pos", "neg"} : ssc_info[f][s].cons = NoneSeq
    /\ \E s \in {"pos", "neg"} : ssc_info[f][s].cons # NoneSeq

(***************************************************************************)
(* C10, as claimed: when exactly one strand of a family was dropped by     *)
(* merge_read_pair, merge_strands does not abort: the run goes on to the   *)
(* remaining families and to the output, and the final DSC map holds only  *)
(* families whose two strands both have a consensus.                       *)
(***************************************************************************)
C10_DroppedStrandIsTolerated ==
    /\ (pc = "merge_pos_neg" /\ exc # "none") =>
          ~OneStrandDropped(ssc_keys[cursor + 1])
    /\ MergeDone =>
          \A f \in DOMAIN dsc_info : \A s \in {"pos", "neg"} :
              ~NoConsensus(f, s)


(***************************************************************************)
(* What the properties of the output bundles speak of.                     *)
(***************************************************************************)
\* ParseSSC.__init__ has returned
Finished == exc = "none" /\ pc = "done"

\* the values the chosen filter metric takes over the families of dsc_info
MetricValues == {dsc_info[f][filter_on] : f \in DOMAIN dsc_info}

\* the thresholds of the bundles written after "all"
ThresholdsWritten == {bundles[i].max_vars : i \in 2..Len(bundles)}

(***************************************************************************)
(* C11: the bundles written by one run are the folder "all", written first *)
(* with no filter, and then exactly one folder max_variants_k for each     *)
(* distinct value k of the chosen filter metric over the families of the   *)
(* DSC map with k <= filter_max; none for a k > filter_max or for a value  *)
(* no family has.                                                          *)
(***************************************************************************)
C11_FolderSet ==
    /\ (exc = "none" /\ pc \in {"thresholds", "done"}) =>
          /\ Len(bundles) >= 1
          /\ bundles[1].folder = "all"
          /\ bundles[1].max_vars = NoneInt
          /\ bundles[1].keep_families = DOMAIN dsc_info
          /\ \A i \in 2..Len(bundles) : bundles[i].folder = "max_variants"
    /\ Finished =>
          /\ ThresholdsWritten = {k \in MetricValues : k <= filter_max}
          /\ Len(bundles) = 1 + Cardinality(ThresholdsWritten)

\* a finished run over two families whose metric values are 0 and 1, with
\* filter_max = 0: folder max_variants_0 is written, max_variants_1 is not
C11_Witness ==
    /\ Finished
    /\ MetricValues = {0, 1}
    /\ filter_max = 0
    /\ ThresholdsWritten = {0}

(***************************************************************************)
(* C12: keep_families of a bundle with threshold T is exactly the set of   *)
(* DSC families whose chosen filter metric is <= T (all families when T is *)
(* None); for two thresholds T1 <= T2 the set of T1 is a subset of the set *)
(* of T2, and every threshold's set is a subset of the set of "all".       *)
(***************************************************************************)
C12_KeepFamilies ==
    \A i \in 1..Len(bundles) :
        /\ bundles[i].keep_families =
              {f \in DOMAIN dsc_info :
                  \/ bundles[i].max_vars = NoneInt
                  \/ dsc_info[f][filter_on] <= bundles[i].max_vars}
        /\ bundles[i].keep_families \subseteq bundles[1].keep_families
        /\ \A j \in 2..Len(bundles) :
              (i >= 2 /\ bundles[i].max_vars <= bundles[j].max_vars) =>
                  bundles[i].keep_families \subseteq bundles[j].keep_families

\* a finished run with the bundles of thresholds 0 and 1, the first keeping
\* one family and the second both
C12_Witness ==
    /\ Finished
    /\ \E i, j \in 2..Len(bundles) :
          /\ bundles[i].max_vars = 0
          /\ bundles[j].max_vars = 1
          /\ Cardinality(bundles[i].keep_families) = 1
          /\ Cardinality(bundles[j].keep_families) = 2

\* the positions of family f that merge_strands counted in one column of the
\* read-position table
counted_positions(f, column) ==
    IF column = "variants" THEN DOMAIN Variants(f)
    ELSE IF column = "adducts" THEN DOMAIN Adducts(f)
    ELSE {p \in Visited(f) : /\ PosBase(f, p) \in allowed_nucs
                             /\ NegBase(f, p) \in allowed_nucs}

\* the number of counted positions of family f at read position r
count_at(f, column, r) ==
    Cardinality({p \in counted_positions(f, column) :
                    readpos_in(p, dsc_info[f].start, dsc_info[f].end) = r})

\* one column of the read-position table of the families keep_families
column_of(keep_families, column) ==
    LET ks == kept_seq(dsc_info, dsc_keys, keep_families)
        n(r) == SumSeq([i \in 1..Len(ks) |-> count_at(ks[i], column, r)])
        rs == UNION {{readpos_in(p, dsc_info[f].start, dsc_info[f].end) :
                        p \in counted_positions(f, column)} :
                     f \in keep_families}
    IN  [r \in rs |-> n(r)]

\* the read-position table of the families keep_families
table_of(keep_families) ==
    [adducts  |-> column_of(keep_families, "adducts"),
     variants |-> column_of(keep_families, "variants"),
     nreads   |-> column_of(keep_families, "nreads")]

(***************************************************************************)
(* C13, as claimed: the read-position table (nreads, variants, adducts per *)
(* read position) written into a bundle counts only the positions of the   *)
(* families kept in that bundle.                                           *)
(***************************************************************************)
C13_ReadPositionsOfKeptFamilies ==
    \A i \in 1..Len(bundles) :
        bundles[i].by_read_position = table_of(bundles[i].keep_families)

\* the (family, position) pairs of one map of the families fs
entries_of(fs, field) ==
    UNION {{<<f, p>> : p \in DOMAIN dsc_info[f][field]} : f \in fs}

\* the families of fs whose DSC record is on contig c
on_contig(fs, c) == {f \in fs : dsc_info[f].ref_name = c}

(***************************************************************************)
(* C14: in the summary of every bundle, the overall adducts count is twice *)
(* the sum over the kept families of the size of the family's adducts map, *)
(* each contig's adducts count is twice that sum over the kept families on *)
(* that contig, and the variants counts, overall and per contig, are the   *)
(* plain sums of the sizes of the variants maps.                           *)
(***************************************************************************)
C14_AdductsCountedTwice ==
    \A i \in 1..Len(bundles) :
        LET keep == bundles[i].keep_families
            summary == bundles[i].summary
        IN  /\ summary.total_counts.adducts =
                  2 * Cardinality(entries_of(keep, "adducts"))
            /\ summary.total_counts.variants =
                  Cardinality(entries_of(keep, "variants"))
            /\ DOMAIN summary.chr_counts =
                  {dsc_info[f].ref_name : f \in keep}
            /\ \A c \in DOMAIN summary.chr_counts :
                  /\ summary.chr_counts[c].adducts =
                        2 * Cardinality(entries_of(on_contig(keep, c),
                                                   "adducts"))
                  /\ summary.chr_counts[c].variants =
                        Cardinality(entries_of(on_contig(keep, c), "variants"))

\* a bundle of two families on two contigs, one with an adduct and one with
\* a variant: the summary counts 2 adducts and 1 variant
C14_Witness ==
    \E i \in 1..Len(bundles) :
        /\ Cardinality(bundles[i].keep_families) = 2
        /\ Cardinality(DOMAIN bundles[i].summary.chr_counts) = 2
        /\ Cardinality(entries_of(bundles[i].keep_families, "adducts")) = 1
        /\ bundles[i].summary.total_counts.adducts = 2
        /\ bundles[i].summary.total_counts.variants = 1


(***************************************************************************)
(* The run on the same records with POS.SSC.bam and NEG.SSC.bam swapped.   *)
(* The records parsed are the same, so the ReferenceCache is the same and  *)
(* read_info holds, for every family, the two strands exchanged.  Its     *)
(* families are inserted in the order of the former NEG file, followed by  *)
(* those only the former POS file holds.  The merges of the swapped run    *)
(* are the loops of merge_fwd_rev_per_strand and merge_pos_neg_strands     *)
(* applied to that read_info in that order.                                *)
(***************************************************************************)
swapped(rinfo) ==
    [f \in DOMAIN rinfo |->
        [strand \in {"pos", "neg"} |->
            rinfo[f][IF strand = "pos" THEN "neg" ELSE "pos"]]]

\* merge_fwd_rev_per_strand from its i-th call of merge_read_pair on
RECURSIVE merge_fwd_rev_from(_, _, _, _, _, _)
merge_fwd_rev_from(i, rinfo, rkeys, ssc, keys, rs) ==
    IF i >= 2 * Len(rkeys)
    THEN [exc |-> "none", ssc_info |-> ssc, ssc_keys |-> keys]
    ELSE LET family_id == rkeys[(i \div 2) + 1]
             strand    == Strands[(i % 2) + 1]
             r == merge_read_pair(family_id, strand, rinfo[family_id][strand],
                                  ssc, keys, rs)
         IN  IF r.exc # "none" THEN r
             ELSE merge_fwd_rev_from(i + 1, rinfo, rkeys, r.ssc_info,
                                     r.ssc_keys, rs)

merge_fwd_rev_per_strand(rinfo, rkeys, rs) ==
    merge_fwd_rev_from(0, rinfo, rkeys, EmptyDict, <<>>, rs)

\* merge_pos_neg_strands from its i-th call of merge_strands on
RECURSIVE merge_pos_neg_from(_, _, _, _, _, _, _)
merge_pos_neg_from(i, ssc, skeys, dsc, keys, rs, bp) ==
    IF i > Len(skeys)
    THEN [exc |-> "none", dsc_info |-> dsc, dsc_keys |-> keys,
          base_positions |-> bp]
    ELSE LET r == merge_strands(skeys[i], ssc[skeys[i]], dsc, keys, rs, bp)
         IN  IF r.exc # "none" THEN r
             ELSE merge_pos_neg_from(i + 1, ssc, skeys, r.dsc_info, r.dsc_keys,
                                     rs, r.base_positions)

merge_pos_neg_strands(ssc, skeys, rs) ==
    merge_pos_neg_from(1, ssc, skeys, EmptyDict, <<>>, rs,
                       [adducts |-> EmptyDict, variants |-> EmptyDict,
                        nreads |-> EmptyDict])

\* the two merges of a run, from its read_info and ReferenceCache
merged_run(rinfo, rkeys, rs) ==
    LET s == merge_fwd_rev_per_strand(rinfo, rkeys, rs)
    IN  IF s.exc # "none"
        THEN [exc |-> s.exc, dsc_info |-> EmptyDict, dsc_keys |-> <<>>,
              base_positions |-> [adducts |-> EmptyDict, variants |-> EmptyDict,
                                  nreads |-> EmptyDict]]
        ELSE merge_pos_neg_strands(s.ssc_info, s.ssc_keys, rs)

\* the variant_base_changes table of the bundle "all" of a run
variant_table(dsc, keys) ==
    format_summary(dsc, keys, DOMAIN dsc).variant_base_changes

\* the insertion order of self.read_info when the file `second` is parsed
\* after the file `first`
keys_of_run(first, second) ==
    LET new(f) == \A i \in 1..Len(first) : first[i] # f
    IN  first \o SelectSeq(second, new)

\* the insertion order of self.read_info in the swapped run
swapped_keys == keys_of_run(bam_keys["neg"], bam_keys["pos"])

SwappedRun == merged_run(swapped(read_info), swapped_keys, refseq)

\* the two strands of every merged family are on one contig
StrandsOnOneContig ==
    \A f \in DOMAIN dsc_info :
        ssc_info[f]["pos"].ref_name = ssc_info[f]["neg"].ref_name

(***************************************************************************)
(* C15, as claimed: the run on the same records with the positive and the  *)
(* negative input swapped yields the same variant_base_changes table as    *)
(* the unswapped run.                                                      *)
(***************************************************************************)
C15_SwapKeepsVariantTable ==
    (MergeDone /\ SwappedRun.exc = "none") =>
        variant_table(SwappedRun.dsc_info, SwappedRun.dsc_keys)
            = variant_table(dsc_info, dsc_keys)

(***************************************************************************)
(* C15, amended: when the two strands of every family are on one contig,   *)
(* the swapped run completes as the unswapped run does and records, for    *)
(* every family, variants at the same positions with the same ref; the var *)
(* of a variant is the base of the strand presented as positive, so under  *)
(* the swap it becomes the base the other strand reads there.  The         *)
(* variant_base_changes table is therefore the same if at every variant    *)
(* position the two strands read the same base.                            *)
(***************************************************************************)
C15_SwapKeepsVariantsUpToVar ==
    (MergeDone /\ StrandsOnOneContig) =>
        /\ SwappedRun.exc = "none"
        /\ DOMAIN SwappedRun.dsc_info = DOMAIN dsc_info
        /\ \A f \in DOMAIN dsc_info :
              /\ DOMAIN SwappedRun.dsc_info[f].variants = DOMAIN Variants(f)
              /\ \A p \in DOMAIN Variants(f) :
                    SwappedRun.dsc_info[f].variants[p] =
                        [var |-> NegBase(f, p), ref |-> Variants(f)[p].ref]
        /\ (\A f \in DOMAIN dsc_info : \A p \in DOMAIN Variants(f) :
                PosBase(f, p) = NegBase(f, p))
              => variant_table(SwappedRun.dsc_info, SwappedRun.dsc_keys)
                    = variant_table(dsc_info, dsc_keys)

\* a merged family on one contig with a variant at which the strands read
\* different bases: the swapped run tallies another base change
C15_Witness ==
    /\ MergeDone
    /\ StrandsOnOneContig
    /\ \E f \in DOMAIN dsc_info : \E p \in DOMAIN Variants(f) :
          PosBase(f, p) # NegBase(f, p)
    /\ SwappedRun.exc = "none"
    /\ variant_table(SwappedRun.dsc_info, SwappedRun.dsc_keys)
          # variant_table(dsc_info, dsc_keys)


(***************************************************************************)
(* C16: once merge_pos_neg_strands has completed, no call of write_output, *)
(* for "all" or for a threshold, changes the DSC map, the SSC map, the     *)
(* ReferenceCache or the read-position counters.                           *)
(***************************************************************************)
C16_WriteOutputOnlyReads ==
    [][(pc \in {"write_all", "thresholds"}) =>
          (UNCHANGED <<dsc_info, dsc_keys, ssc_info, ssc_keys, refseq,
                       base_positions>>)]_vars

\* a finished run that wrote "all" and a threshold bundle that leaves a
\* family out
C16_Witness ==
    /\ Finished
    /\ \E i \in 2..Len(bundles) :
          bundles[i].keep_families # DOMAIN dsc_info
    /\ DOMAIN ssc_info # {}


\* the ReadRecord of a read aligned to chr1:100-103 that matches the
\* reference ACGT
pure_match_record ==
    parse_read(MkRead("F1", FALSE, "chr1", 100, <<"A", "C", "G", "T">>),
               refseq).read_details

\* the input is the single family F1 whose four reads are aligned to
\* chr1:100-103 and all read ACGT
PureMatchScenario ==
    /\ DOMAIN read_info = {"F1"}
    /\ \A strand \in {"pos", "neg"} : \A orient \in {"fwd", "rev"} :
          read_info["F1"][strand][orient] = pure_match_record

(***************************************************************************)
(* C17, as claimed: for the single family whose four reads are aligned to  *)
(* chr1:100-103 (reference ACGT) and all read ACGT, the pipeline produces  *)
(* cons = ACGT, nbases = 4, no variants, no adducts and the read-position  *)
(* counters nreads = {1: 2, 2: 2}.                                         *)
(***************************************************************************)
C17_PureMatch ==
    (MergeDone /\ PureMatchScenario) =>
        /\ DOMAIN dsc_info = {"F1"}
        /\ dsc_info["F1"].cons = <<"A", "C", "G", "T">>
        /\ dsc_info["F1"].nbases = 4
        /\ dsc_info["F1"].variants = EmptyDict
        /\ dsc_info["F1"].adducts = EmptyDict
        /\ base_positions.nreads = (1 :> 2 @@ 2 :> 2)


\* the reference positions of the StrandConsensus of strand s of family f
StrandSpan(f, s) == ssc_info[f][s].start .. ssc_info[f][s].end

\* the base of the StrandConsensus of strand s of family f at position p
StrandBaseAt(f, s, p) == Upper(ssc_info[f][s].cons[p - ssc_info[f][s].start + 1])

(***************************************************************************)
(* C18, as claimed: in merge_strands each strand consensus is trimmed to   *)
(* the duplex span [start, end]: the trimmed consensus has one base per    *)
(* position of the span, and its i-th base is that strand's consensus base *)
(* at reference position start + i, also when the two strands start at     *)
(* different positions.  Stated for the families whose strands overlap.    *)
(***************************************************************************)
C18_TrimKeepsAlignment ==
    \A f \in DOMAIN dsc_info :
        (Merged(f) /\ dsc_info[f].start <= dsc_info[f].end) =>
            \A s \in {"pos", "neg"} :
                LET t == StrandCons(f, s)
                IN  /\ Len(t) = dsc_info[f].end - dsc_info[f].start + 1
                    /\ \A i \in 1..Len(t) :
                          /\ dsc_info[f].start + i - 1 \in StrandSpan(f, s)
                          /\ t[i] = StrandBaseAt(f, s, dsc_info[f].start + i - 1)


\* merge_read_pair has written the StrandConsensus of strand s of family f
HasConsensus(f, s) == f \in DOMAIN ssc_info /\ ssc_info[f][s].cons # NoneSeq

\* the variants of the forward and of the reverse read of strand s of f
FwdVariants(f, s) == read_info[f][s]["fwd"].variants
RevVariants(f, s) == read_info[f][s]["rev"].variants

(***************************************************************************)
(* C19: in merge_read_pair the strand's variants are the union of the      *)
(* forward and the reverse read's variants.  A position that is a variant   *)
(* in the reverse read keeps the reverse read's base, with readpos =       *)
(* rev.end - refpos + 1, also when the forward read has another base       *)
(* there, and that base is the one the strand consensus carries; a         *)
(* position that is a variant in the forward read only keeps its base with *)
(* readpos = refpos - fwd.start + 1.                                       *)
(***************************************************************************)
C19_ReverseReadWins ==
    \A f \in DOMAIN ssc_info : \A s \in {"pos", "neg"} :
        HasConsensus(f, s) =>
            LET v   == ssc_info[f][s].variants
                fwd == read_info[f][s]["fwd"]
                rev == read_info[f][s]["rev"]
            IN  /\ DOMAIN v = (DOMAIN fwd.variants) \cup (DOMAIN rev.variants)
                /\ \A p \in DOMAIN rev.variants :
                      /\ v[p].var = rev.variants[p]
                      /\ v[p].readpos = rev.end - p + 1
                /\ \A p \in (DOMAIN fwd.variants) \ (DOMAIN rev.variants) :
                      /\ v[p].var = fwd.variants[p]
                      /\ v[p].readpos = p - fwd.start + 1
                /\ \A p \in (DOMAIN fwd.variants) \cap (DOMAIN rev.variants) :
                      /\ p \in StrandSpan(f, s)
                      /\ ssc_info[f][s].cons[p - ssc_info[f][s].start + 1]
                            = rev.variants[p]

\* a family with a strand whose two reads disagree at a variant position, a
\* variant seen in the forward read only and one seen in the reverse read
\* only
C19_Witness ==
    \E f \in DOMAIN ssc_info :
        /\ \E s \in {"pos", "neg"} :
              /\ HasConsensus(f, s)
              /\ \E p \in (DOMAIN FwdVariants(f, s)) \cap (DOMAIN RevVariants(f, s)) :
                    FwdVariants(f, s)[p] # RevVariants(f, s)[p]
        /\ \E s \in {"pos", "neg"} :
              /\ HasConsensus(f, s)
              /\ (DOMAIN FwdVariants(f, s)) \ (DOMAIN RevVariants(f, s)) # {}
              /\ (DOMAIN RevVariants(f, s)) \ (DOMAIN FwdVariants(f, s)) # {}


\* the ReadRecord parse_read builds from one record
record_of(read) ==
    [ref_name |-> read.reference_name,
     start    |-> read.reference_start,
     end      |-> read.reference_end,
     variants |-> parse_variants(read, refseq).variants]

\* the stored ReadRecord of a slot before the step, empty for a new family
stored(f, strand, orient) ==
    IF f \in DOMAIN read_info THEN read_info[f][strand][orient] ELSE EmptyDict

(***************************************************************************)
(* C20: every record parse_bam consumes for a strand replaces the stored   *)
(* ReadRecord of its (family, strand, orientation) entirely: the stored    *)
(* record is the one built from that record alone, nothing of the earlier  *)
(* record is merged into it, and the records of every other family, strand *)
(* and orientation are left unchanged.  The record stored at the end of a  *)
(* BAM is therefore that of the last record of the slot in BAM order.      *)
(***************************************************************************)
C20_LastRecordReplaces ==
    [][(pc \in {"parse_pos", "parse_neg"} /\ pc' = pc) =>
          \E read \in pool :
              LET f == read.query_name
                  o == IF read.is_reverse THEN "rev" ELSE "fwd"
              IN  /\ DOMAIN read_info' = (DOMAIN read_info) \cup {f}
                  /\ read_info'[f][bam_strand][o] = record_of(read)
                  /\ \A g \in DOMAIN read_info' :
                        \A s \in {"pos", "neg"} : \A o2 \in {"fwd", "rev"} :
                            (<<g, s, o2>> # <<f, bam_strand, o>>) =>
                                read_info'[g][s][o2] = stored(g, s, o2)]_vars

\* while POS.SSC.bam is read, the stored forward record of F1 is a read at
\* chr1:101 without variants, and chr1:100 is cached although no stored
\* record covers it: an earlier forward record at chr1:100 was replaced
C20_Witness ==
    /\ pc = "parse_pos"
    /\ "F1" \in DOMAIN read_info
    /\ read_info["F1"]["pos"]["rev"] = EmptyDict
    /\ read_info["F1"]["pos"]["fwd"] # EmptyDict
    /\ read_info["F1"]["pos"]["fwd"].start = 101
    /\ read_info["F1"]["pos"]["fwd"].variants = EmptyDict
    /\ 100 \in DOMAIN refseq["chr1"]


(***************************************************************************)
(* A run over two families that are neighbours on chr1: F1 is a one-base   *)
(* family at chr1:100 (reference A) that reads A or C, F2 a one-base       *)
(* family at chr1:101 (reference C) that reads C or G.  The strand span of *)
(* F1, iterated up to its reference_end, ends at chr1:101.                 *)
(***************************************************************************)
PoolNeighbours ==
    {MkRead("F1", rev, "chr1", 100, <<b>>) : rev \in BOOLEAN, b \in {"A", "C"}}
    \cup {MkRead("F2", rev, "chr1", 101, <<b>>) :
            rev \in BOOLEAN, b \in {"C", "G"}}

InitNeighbours == InitWith(PoolNeighbours, {"total_variants"}, {1})

SpecNeighbours == InitNeighbours /\ [][Next]_vars

\* the read_info of the input that holds the stored records of family f only
own_reads(rinfo, f) == [g \in {f} |-> rinfo[f]]

\* the reference positions an ungapped record caches: its aligned pairs
cached_by(rec, c) ==
    IF DOMAIN rec = {} \/ rec.ref_name # c THEN {}
    ELSE rec.start .. (rec.end - 1)

\* the ReferenceCache populated by the stored records of family f only
own_refseq(rinfo, f) ==
    [c \in Contigs |->
        [p \in UNION {cached_by(rinfo[f][strand][orient], c) :
                        strand \in {"pos", "neg"}, orient \in {"fwd", "rev"}}
            |-> Genome[c][p]]]

\* the merges of the run whose input holds the records of family f only
AloneRun(f) ==
    merged_run(own_reads(read_info, f), <<f>>, own_refseq(read_info, f))

(***************************************************************************)
(* C21, as claimed: the DuplexConsensus of a family is determined by its   *)
(* own four reads: the record of every family of the final DSC map is the  *)
(* record the run produces on the input that holds that family's reads     *)
(* only.  In particular the base at the last position of a strand          *)
(* consensus does not depend on another family's read having cached the    *)
(* reference there.                                                        *)
(***************************************************************************)
C21_FamilyDeterminedByOwnReads ==
    MergeDone =>
        \A f \in DOMAIN dsc_info :
            /\ AloneRun(f).exc = "none"
            /\ f \in DOMAIN AloneRun(f).dsc_info
            /\ AloneRun(f).dsc_info[f] = dsc_info[f]


\* the contig of the strand consensus of family f that merge_strands was given
StrandContig(f, strand) == ssc_info[f][strand].ref_name

(***************************************************************************)
(* C22, as claimed: for every family of the final DSC map the positive and *)
(* the negative strand consensus that were merged lie on the same contig,  *)
(* and that contig is the ref_name of the DSC record: no bases are         *)
(* compared, and no reference base is looked up, across contigs.           *)
(***************************************************************************)
C22_MergedStrandsShareContig ==
    MergeDone =>
        \A f \in DOMAIN dsc_info :
            /\ StrandContig(f, "pos") = StrandContig(f, "neg")
            /\ dsc_info[f].ref_name = StrandContig(f, "neg")
====
